---- MODULE Spec2Model ----
(***************************************************************************)
(* Model of src/src/parser.rs: the Tokenizer (tokenize / next_token over a *)
(* Peekable<Chars>) and the Parser cursor with its precedence-climbing     *)
(* loop (parse / parse_expr / parse_prefix / parse_infix / get_precedence  *)
(* / next_token).                                                          *)
(*                                                                         *)
(* A character is a one-character string, a Rust String is a sequence of   *)
(* characters.  A Token is a record [kind, text]; text is the payload of   *)
(* Identifier / Keyword / Number and the empty sequence otherwise.         *)
(***************************************************************************)
EXTENDS Integers, Sequences, FiniteSets, TLC

VARIABLES query, pos, tokens, tpc, tresult, tprev, ptokens, index, ppc, presult

tvars == <<query, pos, tokens, tpc, tresult, tprev>>
pvars == <<ptokens, index, ppc, presult>>
vars == <<query, pos, tokens, tpc, tresult, tprev, ptokens, index, ppc, presult>>

(***************************************************************************)
(* Bounds of the model.                                                    *)
(***************************************************************************)
\* longest query enumerated exhaustively over Alphabet
MaxLen == 4
\* number of next_token calls explored that return a token without consuming
MaxStuck == 2
\* longest token sequence enumerated exhaustively over TokenAlphabet
MaxPLen == 3

\* longest query enumerated exhaustively over WsAlphabet
MaxWsLen == 3

(***************************************************************************)
(* Characters and character classes (the match arms of next_token).        *)
(***************************************************************************)
LowerSeq == <<"a","b","c","d","e","f","g","h","i","j","k","l","m",
              "n","o","p","q","r","s","t","u","v","w","x","y","z">>
UpperSeq == <<"A","B","C","D","E","F","G","H","I","J","K","L","M",
              "N","O","P","Q","R","S","T","U","V","W","X","Y","Z">>
DigitSeq == <<"0","1","2","3","4","5","6","7","8","9">>

SeqRange(s) == {s[i] : i \in 1..Len(s)}

\* the whitespace arm recognising the space only
IsWhitespaceSpaceOnly(ch) == ch = " "

\* ' ' | '\t' | '\n'
IsWhitespace(ch) == ch \in {" ", "\t", "\n"}

\* 'a' ... 'z' | 'A' ... 'Z' | '_' | '@'
IsIdentStart(ch) == ch \in SeqRange(LowerSeq) \cup SeqRange(UpperSeq) \cup {"_", "@"}

\* 'a' ... 'z' | 'A' ... 'Z' | '_' | '0' ... '9'
IsIdentPart(ch) == ch \in SeqRange(LowerSeq) \cup SeqRange(UpperSeq) \cup {"_"} \cup SeqRange(DigitSeq)

\* '0' ... '9'
IsDigit(ch) == ch \in SeqRange(DigitSeq)

\* char::to_uppercase on ASCII: a lower-case letter maps to its upper-case
\* letter, every other ASCII character to itself
ToUpperChar(ch) ==
    IF \E i \in 1..Len(LowerSeq) : LowerSeq[i] = ch
    THEN UpperSeq[CHOOSE i \in 1..Len(LowerSeq) : LowerSeq[i] = ch]
    ELSE ch

\* String::to_uppercase
ToUppercase(s) == [i \in 1..Len(s) |-> ToUpperChar(s[i])]

\* the string patterns of the keyword match
KeywordPatterns == {
    <<"S","E","L","E","C","T">>, <<"F","R","O","M">>, <<"W","H","E","R","E">>,
    <<"L","I","M","I","T">>, <<"O","R","D","E","R">>, <<"G","R","O","U","P">>,
    <<"B","Y">>, <<"U","N","I","O","N">>, <<"A","L","L">>,
    <<"U","P","D","A","T","E">>, <<"D","E","L","E","T","E">>, <<"I","N">>,
    <<"N","O","T">>, <<"N","U","L","L">>, <<"S","E","T">> }

(***************************************************************************)
(* Tokens and errors.                                                      *)
(***************************************************************************)
Tok(k, s) == [kind |-> k, text |-> s]
Plain(k) == Tok(k, <<>>)

TokenKinds == {"Identifier", "Keyword", "Operator", "Number", "Comma",
               "Whitespace", "Eq", "Neq", "Lt", "Gt", "LtEq", "GtEq",
               "Plus", "Minus", "Mult", "Div", "LParen", "RParen"}

ErrorKinds == {"TokenizerError", "ParserError"}

Error(k, m) == [kind |-> k, msg |-> m]
NoError == Error("", <<>>)

\* format!("unhandled char '{}' in tokenizer", ch)
UnhandledCharMsg(ch) == <<"unhandled char '", ch, "' in tokenizer">>

(***************************************************************************)
(* Tokenizer::next_token on the Peekable at position p of q (p characters  *)
(* consumed).  The outcome is Ok(Some(tok)), Ok(None) or Err(err), and the *)
(* position the Peekable is left at.                                       *)
(***************************************************************************)
RECURSIVE IdentRunEnd(_, _)
\* the inner while-let of the identifier arm: consume while the peeked
\* character is a letter, '_' or a digit
IdentRunEnd(q, p) ==
    IF p < Len(q) /\ IsIdentPart(q[p + 1]) THEN IdentRunEnd(q, p + 1) ELSE p

\* the number loop consuming letters and '_' as well
DigitRunEndGreedy(q, p) == IdentRunEnd(q, p)

RECURSIVE DigitRunEnd(_, _)
\* the inner while-let of the number arm
DigitRunEnd(q, p) ==
    IF p < Len(q) /\ IsDigit(q[p + 1]) THEN DigitRunEnd(q, p + 1) ELSE p

Slice(q, from, to) == [i \in 1..(to - from) |-> q[from + i]]

SomeTok(t, p) == [res |-> "Some", tok |-> t, pos |-> p, err |-> NoError]
NoneTok(p) == [res |-> "None", tok |-> Plain("Whitespace"), pos |-> p, err |-> NoError]
ErrTok(e, p) == [res |-> "Err", tok |-> Plain("Whitespace"), pos |-> p, err |-> e]

\* the keyword match without the to_uppercase: keywords in upper case only
ClassifyWordCaseSensitive(s) ==
    IF s \in KeywordPatterns THEN Tok("Keyword", s) ELSE Tok("Identifier", s)

\* match s.to_uppercase().as_ref() { "SELECT" | ... => Keyword(s), _ => Identifier(s) }
ClassifyWord(s) ==
    IF ToUppercase(s) \in KeywordPatterns THEN Tok("Keyword", s) ELSE Tok("Identifier", s)

\* the '<' arm consuming the character it looked at in every case
ScanLtEager(q, p) ==
    IF p + 1 < Len(q)
    THEN CASE q[p + 2] = "=" -> SomeTok(Plain("LtEq"), p + 2)
           [] q[p + 2] = ">" -> SomeTok(Plain("Neq"), p + 2)
           [] OTHER -> SomeTok(Plain("Lt"), p + 2)
    ELSE SomeTok(Plain("Lt"), p + 1)

\* the '<' arm, entered with '<' peeked at p
ScanLt(q, p) ==
    IF p + 1 < Len(q)
    THEN CASE q[p + 2] = "=" -> SomeTok(Plain("LtEq"), p + 2)
           [] q[p + 2] = ">" -> SomeTok(Plain("Neq"), p + 2)
           [] OTHER -> SomeTok(Plain("Lt"), p + 1)
    ELSE SomeTok(Plain("Lt"), p + 1)

\* the '>' arm leaving the '=' of ">=" unconsumed
ScanGtKeepEq(q, p) ==
    IF p + 1 < Len(q)
    THEN CASE q[p + 2] = "=" -> SomeTok(Plain("GtEq"), p + 1)
           [] OTHER -> SomeTok(Plain("Gt"), p + 1)
    ELSE SomeTok(Plain("Gt"), p + 1)

\* the '>' arm, entered with '>' peeked at p
ScanGt(q, p) ==
    IF p + 1 < Len(q)
    THEN CASE q[p + 2] = "=" -> SomeTok(Plain("GtEq"), p + 2)
           [] OTHER -> SomeTok(Plain("Gt"), p + 1)
    ELSE SomeTok(Plain("Gt"), p + 1)

\* the final arm skipping the character as if it were whitespace
ScanUnhandledSkip(q, p) == SomeTok(Plain("Whitespace"), p + 1)

\* the final arm: no character is consumed
ScanUnhandled(q, p) ==
    ErrTok(Error("TokenizerError", UnhandledCharMsg(q[p + 1])), p)

NextToken(q, p) ==
    IF p >= Len(q) THEN NoneTok(p)
    ELSE LET ch == q[p + 1] IN
         CASE IsWhitespace(ch) -> SomeTok(Plain("Whitespace"), p + 1)
           [] IsIdentStart(ch) ->
                LET e == IdentRunEnd(q, p) IN SomeTok(ClassifyWord(Slice(q, p, e)), e)
           [] IsDigit(ch) ->
                LET e == DigitRunEnd(q, p) IN SomeTok(Tok("Number", Slice(q, p, e)), e)
           [] ch = "+" -> SomeTok(Plain("Plus"), p + 1)
           [] ch = "-" -> SomeTok(Plain("Minus"), p + 1)
           [] ch = "*" -> SomeTok(Plain("Mult"), p + 1)
           [] ch = "/" -> SomeTok(Plain("Div"), p + 1)
           [] ch = "=" -> SomeTok(Plain("Eq"), p + 1)
           [] ch = "<" -> ScanLt(q, p)
           [] ch = ">" -> ScanGt(q, p)
           [] OTHER -> ScanUnhandled(q, p)

\* the return without the filter
FilterNothing(ts) == ts

\* tokens.into_iter().filter(|t| match t { &Token::Whitespace => false, _ => true }).collect()
KeepToken(t) == t.kind # "Whitespace"
FilterWhitespace(ts) == SelectSeq(ts, KeepToken)

(***************************************************************************)
(* Results of tokenize.                                                    *)
(***************************************************************************)
Pending == [status |-> "Pending", tokens |-> <<>>, err |-> NoError]
OkTokens(ts) == [status |-> "Ok", tokens |-> ts, err |-> NoError]
ErrResult(e) == [status |-> "Err", tokens |-> <<>>, err |-> e]

(***************************************************************************)
(* Tokenizer::tokenize as a loop over next_token.  tpc is the position of  *)
(* the call: "idle" (Tokenizer constructed, tokenize not called), "scan"   *)
(* (inside the while-let) and "done" (returned).  pos and tokens are the   *)
(* locals `peekable` and `tokens`; they keep their last value on return.   *)
(* tprev is what the previous call on this Tokenizer returned (Pending     *)
(* when there was none).                                                   *)
(***************************************************************************)
\* the call with `tokens` kept from the previous call
TokenizeCallKeepTokens ==
    /\ tpc \in {"idle", "done"}
    /\ pos' = 0
    /\ tokens' = tokens
    /\ tpc' = "scan"
    /\ tresult' = Pending
    /\ tprev' = tresult
    /\ UNCHANGED <<query, ptokens, index, ppc, presult>>

\* let mut peekable = self.query.chars().peekable(); let mut tokens = vec![];
TokenizeCall ==
    /\ tpc \in {"idle", "done"}
    /\ pos' = 0
    /\ tokens' = <<>>
    /\ tpc' = "scan"
    /\ tresult' = Pending
    /\ tprev' = tresult
    /\ UNCHANGED <<query, ptokens, index, ppc, presult>>

\* while let Some(token) = self.next_token(&mut peekable)? { tokens.push(token); }
TokenizePush ==
    /\ tpc = "scan"
    /\ NextToken(query, pos).res = "Some"
    /\ Len(tokens) < Len(query) + MaxStuck
    /\ tokens' = Append(tokens, NextToken(query, pos).tok)
    /\ pos' = NextToken(query, pos).pos
    /\ UNCHANGED <<query, tprev, tpc, tresult, ptokens, index, ppc, presult>>

\* next_token returned Ok(None): leave the loop, filter and return Ok
TokenizeReturn ==
    /\ tpc = "scan"
    /\ NextToken(query, pos).res = "None"
    /\ tpc' = "done"
    /\ tresult' = OkTokens(FilterWhitespace(tokens))
    /\ UNCHANGED <<query, tprev, pos, tokens, ptokens, index, ppc, presult>>

\* next_token returned Err: the `?` returns it from tokenize
TokenizeFail ==
    /\ tpc = "scan"
    /\ NextToken(query, pos).res = "Err"
    /\ tpc' = "done"
    /\ tresult' = ErrResult(NextToken(query, pos).err)
    /\ UNCHANGED <<query, tprev, pos, tokens, ptokens, index, ppc, presult>>

(***************************************************************************)
(* Query texts: every string of at most MaxLen characters over Alphabet,   *)
(* and the query texts of the tests and of the documented examples.        *)
(***************************************************************************)
Alphabet == {" ", "i", "n", "N", "@", "1", "+", "<", ">", "=", "("}

BoundedQueries == UNION {[1..n -> Alphabet] : n \in 0..MaxLen}

QSelect1 == <<"S","E","L","E","C","T"," ","1">>
QSelect1Wide == <<"S","E","L","E","C","T"," "," ","1">>
QSimpleSelect == <<"S","E","L","E","C","T"," ","*"," ","F","R","O","M"," ","c","u","s","t","o","m","e","r"," ","W","H","E","R","E"," ","i","d"," ","="," ","1">>
QLowerSelect == <<"s","e","l","e","c","t">>
QSelects == <<"s","e","l","e","c","t","s">>
QUnderscore == <<"_","i","n"," ","B","y">>
QLtEq == <<"a"," ","<","="," ","b">>
QNeq == <<"a"," ","<",">"," ","b">>
QALtB == <<"a","<","b">>
QModulo == <<"S","E","L","E","C","T"," ","1"," ","%"," ","2">>
QTabs == <<"1","\t","-","\n","2","/","x">>
QAddMul == <<"1"," ","+"," ","2"," ","*"," ","3">>
QSubSub == <<"1"," ","-"," ","2"," ","-"," ","3">>
QParen == <<"(","1"," ","+"," ","2",")"," ","*"," ","3">>
QComma == <<"a",","," ","b">>
QAtId == <<"@","i","d">>
Q12abc == <<"1","2","a","b","c">>
Qabc12 == <<"a","b","c","1","2">>
QGtEq == <<"a",">","=","1">>

SampleQueries == {QSelect1, QSelect1Wide, QSimpleSelect, QLowerSelect, QSelects, QUnderscore, QLtEq, QNeq, QALtB, QModulo, QTabs, QAddMul, QSubSub, QParen, QComma, QAtId, Q12abc, Qabc12, QGtEq}

Queries == BoundedQueries \cup SampleQueries

(***************************************************************************)
(* Parser.  ptokens and index are the fields of the struct; ppc names the  *)
(* last method called on it and presult holds what that call returned.     *)
(* ASTNode is a type of another module: a leaf is Leaf(tok), a binary      *)
(* expression is Binary(op, left, right).                                  *)
(***************************************************************************)
NoExpr == [node |-> "None"]
Leaf(t) == [node |-> "Leaf", tok |-> t]
Binary(op, l, r) == [node |-> "Binary", op |-> op, left |-> l, right |-> r]

NoTok == Plain("Whitespace")

\* the value a method call returned and the index it left
PRes(st, e, x, t, n, i) ==
    [status |-> st, err |-> e, expr |-> x, tok |-> t, prec |-> n, index |-> i]
POk(x, i) == PRes("Ok", NoError, x, NoTok, 0, i)
PErr(e, i) == PRes("Err", e, NoExpr, NoTok, 0, i)
PPrec(n, i) == PRes("Ok", NoError, NoExpr, NoTok, n, i)
PSome(t, i) == PRes("Some", NoError, NoExpr, t, 0, i)
PNone(i) == PRes("None", NoError, NoExpr, NoTok, 0, i)
PPending == PRes("Pending", NoError, NoExpr, NoTok, 0, 0)

\* next_token advancing the index at the end of the tokens too
ParserNextTokenPastEnd(ts, i) ==
    IF i < Len(ts) THEN PSome(ts[i + 1], i + 1) ELSE PNone(i + 1)

\* Parser::next_token
ParserNextToken(ts, i) ==
    IF i < Len(ts) THEN PSome(ts[i + 1], i + 1) ELSE PNone(i)

\* get_precedence answering 0 for a token that is no operator
GetPrecedenceZero(tok, i) ==
    CASE tok.kind \in {"Eq", "Lt", "LtEq", "Neq", "Gt", "GtEq"} -> PPrec(20, i)
      [] tok.kind \in {"Plus", "Minus"} -> PPrec(30, i)
      [] tok.kind \in {"Mult", "Div"} -> PPrec(40, i)
      [] OTHER -> PPrec(0, i)

\* Parser::get_precedence
GetPrecedence(tok, i) ==
    CASE tok.kind \in {"Eq", "Lt", "LtEq", "Neq", "Gt", "GtEq"} -> PPrec(20, i)
      [] tok.kind \in {"Plus", "Minus"} -> PPrec(30, i)
      [] tok.kind \in {"Mult", "Div"} -> PPrec(40, i)
      [] OTHER -> PErr(Error("TokenizerError", <<"invalid token for get_precendence">>), i)

\* Parser::parse_prefix
ParsePrefix(ts, i) ==
    PErr(Error("TokenizerError", <<"not implemented yet">>), i)

\* Parser::parse_infix
ParseInfix(ts, i, expr, precedence) ==
    PErr(Error("TokenizerError", <<"not implemented yet">>), i)

RECURSIVE ParseExprLoop(_, _, _, _)
\* the while-let of parse_expr, entered with the cursor at i and expr built
ParseExprLoop(ts, i, expr, precedence) ==
    LET nt == ParserNextToken(ts, i) IN
    IF nt.status = "None" THEN POk(expr, nt.index)
    ELSE LET np == GetPrecedence(nt.tok, nt.index) IN
         IF np.status = "Err" THEN PErr(np.err, np.index)
         ELSE IF precedence >= np.prec THEN POk(expr, np.index)
         ELSE LET inf == ParseInfix(ts, np.index, expr, np.prec) IN
              IF inf.status = "Err" THEN PErr(inf.err, inf.index)
              ELSE ParseExprLoop(ts, inf.index, inf.expr, precedence)

\* Parser::parse_expr
ParseExpr(ts, i, precedence) ==
    LET pre == ParsePrefix(ts, i) IN
    IF pre.status = "Err" THEN PErr(pre.err, pre.index)
    ELSE ParseExprLoop(ts, pre.index, pre.expr, precedence)

\* Parser::parse
ParseTokens(ts, i) == ParseExpr(ts, i, 0)

\* parser.parse()
Parse ==
    /\ ppc' = "parse"
    /\ presult' = ParseTokens(ptokens, index)
    /\ index' = ParseTokens(ptokens, index).index
    /\ UNCHANGED <<query, tprev, pos, tokens, tpc, tresult, ptokens>>

\* parser.next_token()
NextTokenCall ==
    /\ ppc' = "next_token"
    /\ presult' = ParserNextToken(ptokens, index)
    /\ index' = ParserNextToken(ptokens, index).index
    /\ UNCHANGED <<query, tprev, pos, tokens, tpc, tresult, ptokens>>

(***************************************************************************)
(* Token sequences handed to Parser::new: every sequence of at most        *)
(* MaxPLen tokens over TokenAlphabet, and the token sequences of the        *)
(* documented examples.                                                    *)
(***************************************************************************)
Num(d) == Tok("Number", <<d>>)
Ident(c) == Tok("Identifier", <<c>>)
Kw(s) == Tok("Keyword", s)

\* one token of every variant of the enum
AllTokenShapes ==
    {Ident("a"), Kw(<<"S","E","L","E","C","T">>), Tok("Operator", <<"+">>), Num("1")}
    \cup {Plain(k) : k \in TokenKinds \ {"Identifier", "Keyword", "Operator", "Number"}}

\* parser.get_precedence(&tok)
GetPrecedenceCall ==
    \E tok \in AllTokenShapes :
        /\ ppc' = "get_precedence"
        /\ presult' = [GetPrecedence(tok, index) EXCEPT !.tok = tok]
        /\ UNCHANGED <<query, tprev, pos, tokens, tpc, tresult, ptokens, index>>

TokenAlphabet ==
    {Num("1"), Ident("a"), Kw(<<"S","E","L","E","C","T">>), Plain("Comma"),
     Plain("RParen"), Plain("Plus"), Plain("Mult"), Plain("Eq")}

BoundedTokenSeqs == UNION {[1..n -> TokenAlphabet] : n \in 0..MaxPLen}

TAddMul == <<Num("1"), Plain("Plus"), Num("2"), Plain("Mult"), Num("3")>>
TMulAdd == <<Num("1"), Plain("Mult"), Num("2"), Plain("Plus"), Num("3")>>
TSubSub == <<Num("1"), Plain("Minus"), Num("2"), Plain("Minus"), Num("3")>>
TEqAdd == <<Ident("a"), Plain("Eq"), Num("2"), Plain("Plus"), Num("3")>>
TParen == <<Plain("LParen"), Num("1"), Plain("Plus"), Num("2"), Plain("RParen"),
            Plain("Mult"), Num("3")>>
TUnclosed == <<Plain("LParen"), Num("1"), Plain("Plus"), Num("2")>>
TLimit == <<Num("1"), Plain("Plus"), Num("2"), Kw(<<"L","I","M","I","T">>), Num("3")>>

SampleTokenSeqs == {TAddMul, TMulAdd, TSubSub, TEqAdd, TParen, TUnclosed, TLimit}

ParserInputs == BoundedTokenSeqs \cup SampleTokenSeqs

(***************************************************************************)
(* Specifications.  Spec: a Tokenizer { query } and calls of tokenize.     *)
(* SpecParser: a Parser::new(tokens) and calls of its methods.             *)
(***************************************************************************)
Init ==
    /\ query \in Queries
    /\ pos = 0
    /\ tokens = <<>>
    /\ tpc = "idle"
    /\ tresult = Pending
    /\ tprev = Pending
    /\ ptokens = <<>>
    /\ index = 0
    /\ ppc = "new"
    /\ presult = PPending

Next == TokenizeCall \/ TokenizePush \/ TokenizeReturn \/ TokenizeFail

Spec == Init /\ [][Next]_vars

\* Parser { tokens: tokens, index: 0 }
InitParser ==
    /\ query = <<>>
    /\ pos = 0
    /\ tokens = <<>>
    /\ tpc = "idle"
    /\ tresult = Pending
    /\ tprev = Pending
    /\ ptokens \in ParserInputs
    /\ index = 0
    /\ ppc = "new"
    /\ presult = PPending

NextParser == Parse \/ NextTokenCall \/ GetPrecedenceCall

SpecParser == InitParser /\ [][NextParser]_vars

(***************************************************************************)
(* Tokenizer::tokenize as a function of the query text: what a call on a   *)
(* Tokenizer { query: q } returns.  A call that is still in its loop after *)
(* Len(q) + MaxStuck pushes has not returned: Pending.                     *)
(***************************************************************************)
RECURSIVE TokenizeLoop(_, _, _)
TokenizeLoop(q, p, ts) ==
    LET r == NextToken(q, p) IN
    CASE r.res = "Err" -> ErrResult(r.err)
      [] r.res = "None" -> OkTokens(FilterWhitespace(ts))
      [] OTHER -> IF Len(ts) < Len(q) + MaxStuck
                  THEN TokenizeLoop(q, r.pos, Append(ts, r.tok))
                  ELSE Pending

Tokenize(q) == TokenizeLoop(q, 0, <<>>)

(***************************************************************************)
(* SpecWhitespace: the tokenizer on query texts rich in whitespace.        *)
(***************************************************************************)
WsAlphabet == {" ", "\t", "\n", "i", "1", "<", "=", "(", "@"}

WsQueries == UNION {[1..n -> WsAlphabet] : n \in 0..MaxWsLen} \cup {QSelect1, QSelect1Wide, QTabs}

InitWhitespace ==
    /\ query \in WsQueries
    /\ pos = 0
    /\ tokens = <<>>
    /\ tpc = "idle"
    /\ tresult = Pending
    /\ tprev = Pending
    /\ ptokens = <<>>
    /\ index = 0
    /\ ppc = "new"
    /\ presult = PPending

SpecWhitespace == InitWhitespace /\ [][Next]_vars

(***************************************************************************)
(* Vocabulary of the properties, stated from the documented behaviour and  *)
(* independently of the operators above.                                   *)
(***************************************************************************)
Letters == SeqRange(LowerSeq) \cup SeqRange(UpperSeq)
Digits == SeqRange(DigitSeq)
OperatorChars == {"+", "-", "*", "/", "=", "<", ">"}

\* a character no dispatch rule recognises
Unrecognized(ch) ==
    /\ ch \notin {" ", "\t", "\n"}
    /\ ch \notin Letters \cup Digits \cup {"_", "@"}
    /\ ch \notin OperatorChars

\* the character at the token-start position of a scan in progress
AtTokenStart == tpc = "scan" /\ pos < Len(query)
StartChar == query[pos + 1]

\* the reserved words
ReservedWords == {
    <<"S","E","L","E","C","T">>, <<"F","R","O","M">>, <<"W","H","E","R","E">>,
    <<"L","I","M","I","T">>, <<"O","R","D","E","R">>, <<"G","R","O","U","P">>,
    <<"B","Y">>, <<"U","N","I","O","N">>, <<"A","L","L">>,
    <<"U","P","D","A","T","E">>, <<"D","E","L","E","T","E">>, <<"I","N">>,
    <<"N","O","T">>, <<"N","U","L","L">>, <<"S","E","T">> }

\* c and k are the same letter up to case, k being upper case
SameLetter(c, k) ==
    c = k \/ \E i \in 1..26 : UpperSeq[i] = k /\ LowerSeq[i] = c

IsReserved(s) ==
    \E k \in ReservedWords :
        Len(k) = Len(s) /\ \A i \in 1..Len(s) : SameLetter(s[i], k[i])

\* the end of the maximal run of letters, digits and '_' that starts at pos + 1
WordEnd ==
    CHOOSE e \in (pos + 1)..Len(query) :
        /\ \A i \in (pos + 1)..e : query[i] \in Letters \cup Digits \cup {"_"}
        /\ (e = Len(query) \/ query[e + 1] \notin Letters \cup Digits \cup {"_"})

Lexeme == [i \in 1..(WordEnd - pos) |-> query[pos + i]]

\* the next character after the one at the token start, "" at end of input
Following == IF pos + 1 < Len(query) THEN query[pos + 2] ELSE ""

\* the token and the number of characters a comparison operator takes
Comparison ==
    CASE StartChar = "<" /\ Following = "=" -> <<Plain("LtEq"), 2>>
      [] StartChar = "<" /\ Following = ">" -> <<Plain("Neq"), 2>>
      [] StartChar = ">" /\ Following = "=" -> <<Plain("GtEq"), 2>>
      [] StartChar = "<" -> <<Plain("Lt"), 1>>
      [] StartChar = ">" -> <<Plain("Gt"), 1>>

RECURSIVE WithoutWhitespace(_)
WithoutWhitespace(ts) ==
    IF ts = <<>> THEN <<>>
    ELSE IF Head(ts).kind = "Whitespace" THEN WithoutWhitespace(Tail(ts))
    ELSE <<Head(ts)>> \o WithoutWhitespace(Tail(ts))

\* the precedence table: 0 for a token that is no binding operator
Binds(t) ==
    CASE t.kind \in {"Eq", "Neq", "Lt", "Gt", "LtEq", "GtEq"} -> 20
      [] t.kind \in {"Plus", "Minus"} -> 30
      [] t.kind \in {"Mult", "Div"} -> 40
      [] OTHER -> 0

IsOperand(t) == t.kind \in {"Number", "Identifier"}

\* tokens of the form: a op1 b op2 c
IsChain(ts) ==
    /\ Len(ts) = 5
    /\ IsOperand(ts[1]) /\ IsOperand(ts[3]) /\ IsOperand(ts[5])
    /\ Binds(ts[2]) > 0 /\ Binds(ts[4]) > 0

ChainTree(ts) ==
    IF Binds(ts[4]) > Binds(ts[2])
    THEN Binary(ts[2], Leaf(ts[1]), Binary(ts[4], Leaf(ts[3]), Leaf(ts[5])))
    ELSE Binary(ts[4], Binary(ts[2], Leaf(ts[1]), Leaf(ts[3])), Leaf(ts[5]))

\* the first call on a fresh parser is parse()
FirstParse == ppc = "new" /\ ppc' = "parse"

RECURSIVE OperandChainEnd(_, _)
\* ts[e] is an operand: the end of the longest operand (op operand)* run from e
OperandChainEnd(ts, e) ==
    IF e + 2 <= Len(ts) /\ Binds(ts[e + 1]) > 0 /\ IsOperand(ts[e + 2])
    THEN OperandChainEnd(ts, e + 2)
    ELSE e

\* an operand chain followed by nothing or by a token that is no operator
EndsCleanly(ts) ==
    /\ Len(ts) > 0 /\ IsOperand(ts[1])
    /\ LET e == OperandChainEnd(ts, 1) IN e = Len(ts) \/ Binds(ts[e + 1]) = 0

(***************************************************************************)
(* C1.  tokenize terminates on every query: it is in its loop only         *)
(* finitely often.  The outcome of next_token is a function of the text    *)
(* and the position alone, so the loop ends iff every iteration that stays *)
(* in it consumes input: an iteration that pushes a token and leaves the   *)
(* position where it was repeats for ever.                                 *)
(***************************************************************************)
C1_TokenizeTerminates ==
    [][(tpc = "scan" /\ tpc' = "scan") => pos' > pos]_vars

(***************************************************************************)
(* C2.  Parser::new(tokens).parse() on tokens a op1 b op2 c returns        *)
(* a op1 (b op2 c) when op2 binds tighter than op1 and (a op1 b) op2 c     *)
(* otherwise.                                                              *)
(***************************************************************************)
C2_PrecedenceAndAssociativity ==
    [][(FirstParse /\ IsChain(ptokens))
        => (presult'.status = "Ok" /\ presult'.expr = ChainTree(ptokens))]_vars

(***************************************************************************)
(* C3.  parse leaves the cursor just past the tokens of the parsed         *)
(* expression: the token that stops the loop is not consumed.              *)
(***************************************************************************)
C3_StopTokenNotConsumed ==
    [][(FirstParse /\ EndsCleanly(ptokens))
        => index' = OperandChainEnd(ptokens, 1)]_vars

(***************************************************************************)
(* C4.  After a prefix term, a following token that is no binding operator *)
(* ends the expression normally: the call succeeds with the term.          *)
(***************************************************************************)
C4_NonOperatorEndsExpression ==
    [][(FirstParse /\ Len(ptokens) >= 2 /\ IsOperand(ptokens[1])
            /\ Binds(ptokens[2]) = 0)
        => (presult'.status = "Ok" /\ presult'.expr = Leaf(ptokens[1]))]_vars

(***************************************************************************)
(* C5.  Every failure of a parser method is a ParserError::ParserError.    *)
(***************************************************************************)
C5_StructuralErrorsAreParserError ==
    (ppc \in {"parse", "get_precedence"} /\ presult.status = "Err")
        => presult.err.kind = "ParserError"

(***************************************************************************)
(* C6.  An unrecognized character at a token start makes tokenize fail     *)
(* with a TokenizerError naming it, and no token is returned.              *)
(***************************************************************************)
C6_UnrecognizedCharFails ==
    [][(AtTokenStart /\ Unrecognized(StartChar))
        => /\ tpc' = "done"
           /\ tresult'.status = "Err"
           /\ tresult'.err.kind = "TokenizerError"
           /\ \E i \in 1..Len(tresult'.err.msg) : tresult'.err.msg[i] = StartChar
           /\ tresult'.tokens = <<>>]_vars

C6_Witness ==
    /\ tpc = "done" /\ tresult.status = "Err"
    /\ Len(tokens) >= 2
    /\ pos < Len(query) /\ query[pos + 1] = "("

(***************************************************************************)
(* C7.  Tokenizing "(1 + 2) * 3" succeeds and yields LParen and RParen.    *)
(***************************************************************************)
C7_ParenthesesTokenize ==
    (tpc = "done" /\ query = QParen)
        => /\ tresult.status = "Ok"
           /\ \E i \in 1..Len(tresult.tokens) : tresult.tokens[i].kind = "LParen"
           /\ \E i \in 1..Len(tresult.tokens) : tresult.tokens[i].kind = "RParen"

(***************************************************************************)
(* C8.  A lexeme starting with a letter or '_' becomes Keyword(lexeme) iff *)
(* it is a reserved word up to case, Identifier(lexeme) otherwise, with    *)
(* the lexeme in its original case.                                        *)
(***************************************************************************)
C8_KeywordIffReserved ==
    [][(AtTokenStart /\ StartChar \in Letters \cup {"_"})
        => /\ tpc' = "scan"
           /\ pos' = WordEnd
           /\ tokens' = Append(tokens,
                  Tok(IF IsReserved(Lexeme) THEN "Keyword" ELSE "Identifier", Lexeme))]_vars

C8_Witness ==
    /\ tpc = "done" /\ tresult.status = "Ok"
    /\ \E i \in 1..Len(tresult.tokens) :
          /\ tresult.tokens[i].kind = "Keyword"
          /\ tresult.tokens[i].text \notin ReservedWords
    /\ \E i \in 1..Len(tresult.tokens) :
          /\ tresult.tokens[i].kind = "Identifier"
          /\ Len(tresult.tokens[i].text) > 0

(***************************************************************************)
(* C9.  '<' and '>' are scanned with one character of lookahead: <= <> >=  *)
(* are compounds, any other follower (or none) leaves Lt / Gt and is not   *)
(* consumed.                                                               *)
(***************************************************************************)
C9_ComparisonLookahead ==
    /\ [][(AtTokenStart /\ StartChar \in {"<", ">"})
            => /\ tpc' = "scan"
               /\ tokens' = Append(tokens, Comparison[1])
               /\ pos' = pos + Comparison[2]]_vars
    /\ []((tpc = "done" /\ query = <<"<", "<">>)
            => tresult = OkTokens(<<Plain("Lt"), Plain("Lt")>>))
    /\ []((tpc = "done" /\ query = <<">", "<">>)
            => tresult = OkTokens(<<Plain("Gt"), Plain("Lt")>>))
    /\ []((tpc = "done" /\ query = QALtB)
            => tresult = OkTokens(<<Ident("a"), Plain("Lt"), Ident("b")>>))

C9_Witness ==
    /\ tpc = "done" /\ query = QALtB
    /\ tresult = OkTokens(<<Ident("a"), Plain("Lt"), Ident("b")>>)

(***************************************************************************)
(* C10.  A returned token sequence holds no Whitespace token and is the    *)
(* scanned sequence with exactly the Whitespace entries removed.           *)
(***************************************************************************)
C10_WhitespaceFiltered ==
    (tpc = "done" /\ tresult.status = "Ok")
        => /\ \A i \in 1..Len(tresult.tokens) : tresult.tokens[i].kind # "Whitespace"
           /\ tresult.tokens = WithoutWhitespace(tokens)

C10_Witness ==
    /\ tpc = "done" /\ tresult.status = "Ok"
    /\ Len(tresult.tokens) >= 2
    /\ Len(tokens) > Len(tresult.tokens)
    /\ tokens[1].kind = "Whitespace"

(***************************************************************************)
(* C11.  Whitespace invariance: a query and the query with one whitespace  *)
(* character replaced by a run of whitespace characters, or with           *)
(* whitespace added in front or at the end, give the same result of        *)
(* tokenize; "SELECT 1" and "SELECT  1" give the same sequence.            *)
(***************************************************************************)
WhitespaceChars == {" ", "\t", "\n"}

WhitespaceRuns ==
    {<<w>> : w \in WhitespaceChars}
    \cup {<<w, x>> : w \in WhitespaceChars, x \in WhitespaceChars}

ReplaceAt(q, k, r) == SubSeq(q, 1, k - 1) \o r \o SubSeq(q, k + 1, Len(q))

WhitespaceVariants(q) ==
    {ReplaceAt(q, k, r) : k \in {j \in 1..Len(q) : q[j] \in WhitespaceChars},
                          r \in WhitespaceRuns}
    \cup {r \o q : r \in WhitespaceRuns}
    \cup {q \o r : r \in WhitespaceRuns}

C11_WhitespaceInvariance ==
    tpc = "done"
        => /\ \A v \in WhitespaceVariants(query) : Tokenize(v) = tresult
           /\ (query = QSelect1 => Tokenize(QSelect1Wide) = tresult)

C11_Witness ==
    /\ tpc = "done" /\ tresult.status = "Ok"
    /\ Len(tresult.tokens) = 2
    /\ Len(query) = 3 /\ query[2] = "\t"

(***************************************************************************)
(* C12.  '@' starts an identifier lexeme: at a token start on '@' the step *)
(* consumes the '@' and the maximal run of letters, digits and '_' after   *)
(* it and emits one Identifier token.                                      *)
(***************************************************************************)
WordChars == Letters \cup Digits \cup {"_"}

\* the end of the lexeme that starts with the '@' at pos + 1
AtLexemeEnd ==
    CHOOSE e \in (pos + 1)..Len(query) :
        /\ \A i \in (pos + 2)..e : query[i] \in WordChars
        /\ (e = Len(query) \/ query[e + 1] \notin WordChars)

C12_AtStartsIdentifier ==
    [][(AtTokenStart /\ StartChar = "@")
        => /\ tpc' = "scan"
           /\ pos' = AtLexemeEnd
           /\ Len(tokens') = Len(tokens) + 1
           /\ tokens'[Len(tokens')].kind = "Identifier"]_vars

(***************************************************************************)
(* C13.  tokenize keeps no hidden state: a second call on the same         *)
(* Tokenizer returns what the first returned, and what a call returns is   *)
(* the function of the query text alone.                                   *)
(***************************************************************************)
C13_Deterministic ==
    tpc = "done"
        => /\ (tprev.status # "Pending" => tresult = tprev)
           /\ tresult = Tokenize(query)

C13_Witness ==
    /\ tpc = "done"
    /\ tprev.status = "Ok"
    /\ Len(tprev.tokens) >= 2
    /\ query = QSelect1

(***************************************************************************)
(* C14.  get_precedence returns 20 for the comparisons, 30 for Plus and    *)
(* Minus, 40 for Mult and Div and an error for every other token, and      *)
(* leaves the cursor where it was.                                         *)
(***************************************************************************)
C14_PrecedenceTable ==
    /\ [](ppc = "get_precedence"
            => IF Binds(presult.tok) > 0
               THEN presult.status = "Ok" /\ presult.prec = Binds(presult.tok)
               ELSE presult.status = "Err")
    /\ []((ppc = "get_precedence" /\ presult.status = "Ok")
            => CASE presult.prec = 20 ->
                      presult.tok.kind \in {"Eq", "Neq", "Lt", "Gt", "LtEq", "GtEq"}
                 [] presult.prec = 30 -> presult.tok.kind \in {"Plus", "Minus"}
                 [] presult.prec = 40 -> presult.tok.kind \in {"Mult", "Div"}
                 [] OTHER -> FALSE)
    /\ [][ppc' = "get_precedence" => (index' = index /\ ptokens' = ptokens)]_vars

C14_Witness ==
    /\ ppc = "get_precedence"
    /\ presult.status = "Err"
    /\ presult.tok.kind = "RParen"
    /\ index > 0

(***************************************************************************)
(* C15.  The cursor: the index is 0 after Parser::new, stays within        *)
(* 0..tokens.len(), never decreases, the tokens never change; next_token   *)
(* at index i returns Some(tokens[i]) and moves to i + 1 below the length, *)
(* and returns None leaving the index at the length.                       *)
(***************************************************************************)
C15_CursorInvariant ==
    /\ [](ppc = "new" => index = 0)
    /\ [](index \in 0..Len(ptokens))
    /\ [][index' >= index /\ ptokens' = ptokens]_vars
    /\ [][ppc' = "next_token"
            => IF index < Len(ptokens)
               THEN /\ presult'.status = "Some"
                    /\ presult'.tok = ptokens[index + 1]
                    /\ index' = index + 1
               ELSE /\ presult'.status = "None"
                    /\ index' = index]_vars

C15_Witness ==
    /\ ppc = "next_token"
    /\ presult.status = "None"
    /\ Len(ptokens) = 3
    /\ index = 3

(***************************************************************************)
(* C16.  Maximal munch: a token starting with a digit is Number of the     *)
(* maximal run of digits, whatever follows; "12abc" is Number(12),         *)
(* Identifier(abc) and "abc12" is the one token Identifier(abc12).         *)
(***************************************************************************)
\* the end of the maximal run of digits that starts at pos + 1
NumberEnd ==
    CHOOSE e \in (pos + 1)..Len(query) :
        /\ \A i \in (pos + 1)..e : query[i] \in Digits
        /\ (e = Len(query) \/ query[e + 1] \notin Digits)

C16_MaximalMunch ==
    /\ [][(AtTokenStart /\ StartChar \in Digits)
            => /\ tpc' = "scan"
               /\ pos' = NumberEnd
               /\ tokens' = Append(tokens,
                      Tok("Number", [i \in 1..(NumberEnd - pos) |-> query[pos + i]]))]_vars
    /\ []((tpc = "done" /\ query = Q12abc)
            => tresult = OkTokens(<<Tok("Number", <<"1", "2">>),
                                    Tok("Identifier", <<"a", "b", "c">>)>>))
    /\ []((tpc = "done" /\ query = Qabc12)
            => tresult = OkTokens(<<Tok("Identifier", <<"a", "b", "c", "1", "2">>)>>))

C16_Witness ==
    /\ tpc = "done" /\ query = Q12abc
    /\ tresult.status = "Ok" /\ Len(tresult.tokens) = 2
    /\ Len(tokens) = 2

(***************************************************************************)
(* C17.  Scanner progress: every token pushed stands for at least one      *)
(* consumed character, and every Identifier, Keyword or Number pushed has  *)
(* a non-empty payload.                                                    *)
(***************************************************************************)
C17_ScannerProgress ==
    /\ Len(tokens) <= pos
    /\ \A i \in 1..Len(tokens) :
          tokens[i].kind \in {"Identifier", "Keyword", "Number"}
              => Len(tokens[i].text) > 0

(***************************************************************************)
(* C18.  Lexeme round trip: the spellings of the returned tokens, in       *)
(* order, concatenate to the query text without its space, tab and newline *)
(* characters.                                                             *)
(***************************************************************************)
Spelling(t) ==
    CASE t.kind \in {"Identifier", "Keyword", "Number"} -> t.text
      [] t.kind = "Plus" -> <<"+">>
      [] t.kind = "Minus" -> <<"-">>
      [] t.kind = "Mult" -> <<"*">>
      [] t.kind = "Div" -> <<"/">>
      [] t.kind = "Eq" -> <<"=">>
      [] t.kind = "Lt" -> <<"<">>
      [] t.kind = "Gt" -> <<">">>
      [] t.kind = "LtEq" -> <<"<", "=">>
      [] t.kind = "Neq" -> <<"<", ">">>
      [] t.kind = "GtEq" -> <<">", "=">>

RECURSIVE Spell(_)
Spell(ts) == IF ts = <<>> THEN <<>> ELSE Spelling(Head(ts)) \o Spell(Tail(ts))

NotBlank(ch) == ch \notin {" ", "\t", "\n"}

C18_LexemeRoundTrip ==
    (tpc = "done" /\ tresult.status = "Ok")
        => Spell(tresult.tokens) = SelectSeq(query, NotBlank)

C18_Witness ==
    /\ tpc = "done" /\ tresult.status = "Ok"
    /\ query = QGtEq
    /\ Len(tresult.tokens) = 3

====
